---- MODULE Spec2Model ----
(***************************************************************************)
(* State-machine model of the Smart Parking API (src/api/app.py).          *)
(*                                                                         *)
(* State: the four persisted stores (db, db_sequential, db_random,         *)
(* db_algorithm), the live occupancy grid held by smart_parking.env        *)
(* (env.state and env.parking_lot), the wall clock, and the outcome of the *)
(* last request handler.  Every request handler is one action.             *)
(*                                                                         *)
(* Time is counted in whole hours from midnight of 2025-06-30, the date    *)
(* parse_datetime attaches to a time-only string.                          *)
(*                                                                         *)
(* The collaborators imported by app.py (ParkingDatabase, the environment, *)
(* SmartParkingSystem, SimulationManager) are modelled from the            *)
(* specification; everything else is translated from app.py.               *)
(***************************************************************************)
EXTENDS Integers, Sequences, FiniteSets, TLC

(***************************************************************************)
(* Bounds of the model.  The deployed facility is 4 bays of 10 slots       *)
(* (app.py line 111); the model scales the shape down.                     *)
(***************************************************************************)
NumBays == 2
SlotsPerBay == 1
MaxTime == 2
MaxClock == 2
MaxRecs == 2
MaxBatch == 2

\* date(2025, 6, 30): the day a time-only string is placed on, as an hour offset.
TodayBase == 0

TotalSlots == NumBays * SlotsPerBay

\* 0-based grid indices, as used on env.parking_lot and env.state.
GridCells == (0 .. NumBays - 1) \X (0 .. SlotsPerBay - 1)
Actions == 0 .. TotalSlots - 1

StrategyNames == {"algorithm", "sequential", "random"}
StoreNames == StrategyNames \cup {"main"}

\* str.lower() on a strategy string.  The strings the model submits are the
\* lower-case names, their upper-case and capitalised spellings, the empty
\* string and "none" (Python's None, which the query parameters default to).
lower(s) ==
    CASE s \in {"SEQUENTIAL", "Sequential"} -> "sequential"
      [] s \in {"RANDOM", "Random"} -> "random"
      [] s \in {"ALGORITHM", "Algorithm"} -> "algorithm"
      [] s \in {"MAIN", "Main"} -> "main"
      [] s \in {"ALL", "All"} -> "all"
      [] s \in {"BOGUS", "Bogus"} -> "bogus"
      [] OTHER -> s

Plates == {"A", "B"}
TimeVals == 0 .. MaxTime

(***************************************************************************)
(* Date-time strings.  A string is abstracted to its form and the instant  *)
(* it denotes: "aware" carries a UTC offset ("Z" or "+hh:mm"), "naive" is  *)
(* a full ISO date-time without offset, "timeonly" is "%H:%M", and "bad"   *)
(* is anything parse_datetime cannot read.                                 *)
(***************************************************************************)
BadString == [form |-> "bad", t |-> 0]
DtStrings ==
    [form : {"aware", "naive", "timeonly"}, t : TimeVals] \cup {BadString}

Aware(t) == [form |-> "aware", t |-> t]

\* The datetime object parse_datetime returns, or the exception it raises.
parse_datetime(dt_str) ==
    CASE dt_str.form = "aware" ->
            [err |-> "none", aware |-> TRUE, t |-> dt_str.t]
      [] dt_str.form = "naive" ->
            [err |-> "none", aware |-> FALSE, t |-> dt_str.t]
      [] dt_str.form = "timeonly" ->
            [err |-> "none", aware |-> FALSE, t |-> TodayBase + dt_str.t]
      [] OTHER ->
            [err |-> "ValueError", aware |-> FALSE, t |-> 0]

\* datetime.now().astimezone(): always timezone-aware.
CurrentTime(now) == [err |-> "none", aware |-> TRUE, t |-> now]

\* a < b on datetime objects: comparing an aware with a naive one raises.
DtLess(a, b) ==
    IF a.aware # b.aware THEN "TypeError"
    ELSE IF a.t < b.t THEN "true" ELSE "false"

\* (b - a) on datetime objects: the sign of the duration, or TypeError.
DtDuration(a, b) ==
    IF a.aware # b.aware THEN [err |-> "TypeError", hours |-> 0]
    ELSE [err |-> "none", hours |-> b.t - a.t]

VARIABLES
    stores,        \* store name -> sequence of allocation records
    env_state,     \* smart_parking.env.state: action index -> 0 / 1
    parking_lot,   \* smart_parking.env.parking_lot: (bay, slot) -> 0 / 1
    clock,         \* the wall clock
    last           \* what the last request handler was given and returned

vars == <<stores, env_state, parking_lot, clock, last>>

db == stores["main"]
db_sequential == stores["sequential"]
db_random == stores["random"]
db_algorithm == stores["algorithm"]

\* env.reset(occupancy_rate=0.0): every cell free.
ResetState == [a \in Actions |-> 0]
ResetLot == [c \in GridCells |-> 0]
ResetEnv == [state |-> ResetState, lot |-> ResetLot, raised |-> "none"]

\* Indexing an array of length n with i: a negative index counts from the end,
\* an index outside -n .. n - 1 raises IndexError (here: -1).
PyIndex(i, n) ==
    IF i >= 0 /\ i < n THEN i
    ELSE IF i < 0 /\ i >= -n THEN i + n
    ELSE -1

\* action = bay * slots_per_bay + slot; env.state[action] = 1;
\* env.parking_lot[bay, slot] = 1.  The first assignment that raises ends it.
MarkCell(g, bay, slot) ==
    LET action == PyIndex(bay * SlotsPerBay + slot, TotalSlots)
        b == PyIndex(bay, NumBays)
        s == PyIndex(slot, SlotsPerBay)
    IN  IF action = -1 THEN [g EXCEPT !.raised = "IndexError"]
        ELSE IF b = -1 \/ s = -1
             THEN [g EXCEPT !.state[action] = 1, !.raised = "IndexError"]
        ELSE [g EXCEPT !.state[action] = 1, !.lot[<<b, s>>] = 1]

(***************************************************************************)
(* The persisted-record store.  A record keeps the fields the handlers     *)
(* read; vehicle_plate_type, vehicle_type, priority_level and the score    *)
(* are copied like departure_time and are not modelled separately.         *)
(***************************************************************************)
\* ParkingDatabase.create_allocation: append, the id is the document number.
create_allocation(store, record) ==
    Append(store, [record EXCEPT !.id = Len(store) + 1])

\* ParkingDatabase.allocations.truncate(): the store without any record.
truncate(store) == <<>>

\* ParkingDatabase.get_all_allocations
get_all_allocations(store) == store

\* ParkingDatabase.get_allocation: the record, or None (id 0)
HasAllocation(store, allocation_id) == allocation_id \in 1 .. Len(store)

\* ParkingDatabase.update_allocation: overwrite the given fields.
update_allocation_db(store, allocation_id, field, value) ==
    CASE field = "departure_time" ->
            [store EXCEPT ![allocation_id].departure_time = value]
      [] field = "allocation_time" ->
            [store EXCEPT ![allocation_id].allocation_time = value]
      [] field = "bay_assigned" ->
            [store EXCEPT ![allocation_id].bay_assigned = value]
      [] field = "slot_assigned" ->
            [store EXCEPT ![allocation_id].slot_assigned = value]
      [] OTHER ->
            [store EXCEPT ![allocation_id].is_active = value]

NewRecord(plate, bay, slot, allocation_time, departure_time) ==
    [id |-> 0,
     vehicle_plate_num |-> plate,
     bay_assigned |-> bay,
     slot_assigned |-> slot,
     allocation_time |-> allocation_time,
     departure_time |-> departure_time,
     is_active |-> TRUE]

(***************************************************************************)
(* The clock during one request.  A handler calls datetime.now() many      *)
(* times; `times` is the sequence of hours these calls return, one entry   *)
(* per call in call order (the last entry stands for any further call).    *)
(***************************************************************************)
Reading(times, k) == times[IF k <= Len(times) THEN k ELSE Len(times)]

\* The run of a status handler: the grid after env.reset(occupancy_rate=0.0),
\* no exception, no clock reading taken yet.
StartRun == [state |-> ResetState, lot |-> ResetLot, raised |-> "none", reads |-> 0]

\* The cells in the order of the nested loops `for bay ... for slot ...`.
CellAt(n) == <<n \div SlotsPerBay, n % SlotsPerBay>>

NoSlots == [c \in GridCells |-> [slot_number |-> c[2] + 1, is_occupied |-> FALSE,
                                  allocation |-> 0]]

(***************************************************************************)
(* get_parking_status (lines 134-204)                                      *)
(***************************************************************************)
\* Lines 147-161: the loop that marks the live grid from the main store.  The
\* clock is read once per record (line 156), after both strings are parsed.
\* A raise leaves the grid as marked so far.
RECURSIVE StatusMarkLoop(_, _, _, _)
StatusMarkLoop(allocations, i, times, g) ==
    IF i > Len(allocations) \/ g.raised # "none" THEN g
    ELSE LET allocation == allocations[i]
             bay == allocation.bay_assigned - 1
             slot == allocation.slot_assigned - 1
             arrival_time == parse_datetime(allocation.allocation_time)
             departure_time == parse_datetime(allocation.departure_time)
             current_time == CurrentTime(Reading(times, g.reads + 1))
             cmp == DtLess(current_time, departure_time)
             read == [g EXCEPT !.reads = @ + 1]
         IN  IF arrival_time.err # "none" THEN [g EXCEPT !.raised = arrival_time.err]
             ELSE IF departure_time.err # "none"
                  THEN [g EXCEPT !.raised = departure_time.err]
             ELSE IF cmp = "TypeError" THEN [read EXCEPT !.raised = "TypeError"]
             ELSE IF cmp = "true"
                  THEN StatusMarkLoop(allocations, i + 1, times, MarkCell(read, bay, slot))
             ELSE StatusMarkLoop(allocations, i + 1, times, read)

\* Lines 170-179: the allocation attached to an occupied cell (0 is None).
\* The clock is read once per record of the cell (line 176), until one is
\* found that has not expired; `reads` counts the readings taken so far.
RECURSIVE StatusFindAllocation(_, _, _, _, _, _)
StatusFindAllocation(allocations, i, bay, slot, times, reads) ==
    IF i > Len(allocations) THEN [allocation |-> 0, reads |-> reads]
    ELSE LET a == allocations[i]
             current_time == CurrentTime(Reading(times, reads + 1))
         IN  IF a.bay_assigned = bay + 1 /\ a.slot_assigned = slot + 1
             THEN IF DtLess(current_time, parse_datetime(a.departure_time)) = "true"
                  THEN [allocation |-> a.id, reads |-> reads + 1]
                  ELSE StatusFindAllocation(allocations, i + 1, bay, slot, times, reads + 1)
             ELSE StatusFindAllocation(allocations, i + 1, bay, slot, times, reads)

\* Lines 165-189: the per-slot entries, cell after cell from cell number n.
\* acc = [slots, reads]
RECURSIVE StatusSlotsFrom(_, _, _, _, _)
StatusSlotsFrom(allocations, lot, times, n, acc) ==
    IF n >= TotalSlots THEN acc
    ELSE LET c == CellAt(n)
             is_occupied == (lot[c] = 1)
             found == IF is_occupied
                      THEN StatusFindAllocation(allocations, 1, c[1], c[2], times, acc.reads)
                      ELSE [allocation |-> 0, reads |-> acc.reads]
         IN  StatusSlotsFrom(allocations, lot, times, n + 1,
                 [slots |-> [acc.slots EXCEPT ![c] =
                                [slot_number |-> c[2] + 1,
                                 is_occupied |-> is_occupied,
                                 allocation |-> found.allocation]],
                  reads |-> found.reads])

\* Lines 164-189: the entries of all cells and the clock readings taken.
StatusSlots(allocations, lot, times, reads) ==
    StatusSlotsFrom(allocations, lot, times, 0, [slots |-> NoSlots, reads |-> reads])

\* A summary that reports every slot as available.
ParkingStatus_AllAvailable(slots) ==
    [bays |-> slots,
     total_slots |-> NumBays * SlotsPerBay,
     occupied_slots |-> Cardinality({c \in GridCells : slots[c].is_occupied}),
     available_slots |-> NumBays * SlotsPerBay]

\* Lines 191-204: the summary (shared shape of the three renderers).
ParkingStatus(slots) ==
    LET total_slots == NumBays * SlotsPerBay
        occupied_slots == Cardinality({c \in GridCells : slots[c].is_occupied})
    IN  [bays |-> slots,
         total_slots |-> total_slots,
         occupied_slots |-> occupied_slots,
         available_slots |-> total_slots - occupied_slots]

\* The whole handler: the grid it leaves, the report (or the exception) and
\* the number of clock readings it took, the one of line 203 included.
get_parking_status(allocations, times) ==
    LET g == StatusMarkLoop(allocations, 1, times, StartRun)
        s == StatusSlots(allocations, g.lot, times, g.reads)
    IN  IF g.raised # "none"
        THEN [state |-> g.state, lot |-> g.lot, raised |-> g.raised,
              report |-> ParkingStatus(NoSlots),
              loop_reads |-> g.reads, reads |-> g.reads]
        ELSE [state |-> g.state, lot |-> g.lot, raised |-> "none",
              report |-> ParkingStatus(s.slots),
              loop_reads |-> s.reads, reads |-> s.reads + 1]

(***************************************************************************)
(* generate_parking_status_from_db (lines 808-879)                         *)
(***************************************************************************)
IsActive(a) == a.is_active

\* Lines 823-835: the clock is read once per record (line 829).
RECURSIVE DbMarkLoop(_, _, _, _)
DbMarkLoop(allocations, i, times, g) ==
    IF i > Len(allocations) \/ g.raised # "none" THEN g
    ELSE LET allocation == allocations[i]
             bay == allocation.bay_assigned - 1
             slot == allocation.slot_assigned - 1
             departure_time == parse_datetime(allocation.departure_time)
             current_time == CurrentTime(Reading(times, g.reads + 1))
             cmp == DtLess(current_time, departure_time)
             read == [g EXCEPT !.reads = @ + 1]
         IN  IF departure_time.err # "none"
             THEN [g EXCEPT !.raised = departure_time.err]
             ELSE IF cmp = "TypeError" THEN [read EXCEPT !.raised = "TypeError"]
             ELSE IF cmp = "true" /\ IsActive(allocation)
                  THEN DbMarkLoop(allocations, i + 1, times, MarkCell(read, bay, slot))
             ELSE DbMarkLoop(allocations, i + 1, times, read)

\* Lines 845-854: the clock is read once per record of the cell (line 851).
RECURSIVE DbFindAllocation(_, _, _, _, _, _)
DbFindAllocation(allocations, i, bay, slot, times, reads) ==
    IF i > Len(allocations) THEN [allocation |-> 0, reads |-> reads]
    ELSE LET a == allocations[i]
             current_time == CurrentTime(Reading(times, reads + 1))
         IN  IF a.bay_assigned = bay + 1 /\ a.slot_assigned = slot + 1
             THEN IF DtLess(current_time, parse_datetime(a.departure_time)) = "true"
                       /\ IsActive(a)
                  THEN [allocation |-> a.id, reads |-> reads + 1]
                  ELSE DbFindAllocation(allocations, i + 1, bay, slot, times, reads + 1)
             ELSE DbFindAllocation(allocations, i + 1, bay, slot, times, reads)

\* Lines 839-864, cell after cell from cell number n.  acc = [slots, reads]
RECURSIVE DbSlotsFrom(_, _, _, _, _)
DbSlotsFrom(allocations, lot, times, n, acc) ==
    IF n >= TotalSlots THEN acc
    ELSE LET c == CellAt(n)
             is_occupied == (lot[c] = 1)
             found == IF is_occupied
                      THEN DbFindAllocation(allocations, 1, c[1], c[2], times, acc.reads)
                      ELSE [allocation |-> 0, reads |-> acc.reads]
         IN  DbSlotsFrom(allocations, lot, times, n + 1,
                 [slots |-> [acc.slots EXCEPT ![c] =
                                [slot_number |-> c[2] + 1,
                                 is_occupied |-> is_occupied,
                                 allocation |-> found.allocation]],
                  reads |-> found.reads])

\* Lines 838-864.
DbSlots(allocations, lot, times, reads) ==
    DbSlotsFrom(allocations, lot, times, 0, [slots |-> NoSlots, reads |-> reads])

generate_parking_status_from_db(allocations, times) ==
    LET g == DbMarkLoop(allocations, 1, times, StartRun)
        s == DbSlots(allocations, g.lot, times, g.reads)
    IN  IF g.raised # "none"
        THEN [state |-> g.state, lot |-> g.lot, raised |-> g.raised,
              report |-> ParkingStatus(NoSlots),
              loop_reads |-> g.reads, reads |-> g.reads]
        ELSE [state |-> g.state, lot |-> g.lot, raised |-> "none",
              report |-> ParkingStatus(s.slots),
              loop_reads |-> s.reads, reads |-> s.reads + 1]

(***************************************************************************)
(* The allocation engine behind smart_parking and SimulationManager, from  *)
(* the specification (sections 4.1, 4.3, 4.4).                             *)
(***************************************************************************)
Naive(t) == [form |-> "naive", t |-> t]
TimeOnly(t) == [form |-> "timeonly", t |-> t]

\* The windows a request is given: an early, a late or an unreadable arrival;
\* every aware departure, a naive one or an unreadable one.
ArrivalStrings == {Aware(0), Aware(MaxTime), BadString}
DepartureStrings == {Aware(t) : t \in TimeVals} \cup {Naive(MaxTime), BadString}

Request(plate, arrival_time, departure_time) ==
    [vehicle_plate_num |-> plate,
     arrival_time |-> arrival_time,
     departure_time |-> departure_time]

\* The single requests the model submits (the plate plays no part in how one
\* request is handled).
Vehicles ==
    {Request("A", a, d) : a \in ArrivalStrings, d \in DepartureStrings}

\* The requests a batch is made of: one plate with every departure (the empty
\* window included), the same plate with an unreadable arrival, a second plate.
BatchVehicles ==
    {Request("A", Aware(0), Aware(d)) : d \in TimeVals}
        \cup {Request("A", BadString, Aware(MaxTime)),
              Request("B", Aware(0), Aware(MaxTime))}

SeqsUpTo(S, n) == UNION {[1 .. k -> S] : k \in 0 .. n}
Batches == SeqsUpTo(BatchVehicles, MaxBatch)

\* PolicyEngine.decide (a): the request has a readable window with
\* arrival_time < departure_time; otherwise InvalidRequestError.
ValidRequest(v) ==
    LET a == parse_datetime(v.arrival_time)
        d == parse_datetime(v.departure_time)
    IN  /\ a.err = "none"
        /\ d.err = "none"
        /\ DtLess(a, d) = "true"

\* OccupancyGrid.free_cells(): as action indices, bay-major then slot-minor.
FreeActions(lot) ==
    {a \in Actions : lot[<<a \div SlotsPerBay, a % SlotsPerBay>>] = 0}

\* The n-th free cell in scan order (n counted from 0, wrapping around).
NthFree(lot, n) ==
    LET free == FreeActions(lot)
        k == n % Cardinality(free)
    IN  CHOOSE a \in free : Cardinality({b \in free : b < a}) = k

\* PolicyEngine.decide: sequential takes the first free cell; random takes any
\* free cell; the learned policy takes the free cell its scores rank first,
\* which for the model is any free cell.  `pick` is the policy's draw.
Decide(strategy, lot, pick) ==
    IF strategy = "sequential" THEN NthFree(lot, 0) ELSE NthFree(lot, pick)

\* The draws a policy can make.
Picks(strategy) == IF strategy = "sequential" THEN {0} ELSE Actions

\* The decision time stamped on a result: datetime.now() in ISO form.
DecisionTime(now) == [form |-> "naive", t |-> now]

FailedResult(v) ==
    [vehicle_plate_num |-> v.vehicle_plate_num, status |-> "failed",
     bay_assigned |-> 0, slot_assigned |-> 0, allocation_time |-> BadString]

SuccessResult(v, a, now) ==
    [vehicle_plate_num |-> v.vehicle_plate_num, status |-> "success",
     bay_assigned |-> (a \div SlotsPerBay) + 1,
     slot_assigned |-> (a % SlotsPerBay) + 1,
     allocation_time |-> DecisionTime(now)]

\* OccupancyGrid.occupy on a private grid.
Occupy(lot, a) == [lot EXCEPT ![<<a \div SlotsPerBay, a % SlotsPerBay>>] = 1]

\* SimulationRunner.run: requests in input order against one grid; a request
\* that is invalid or finds no free cell becomes a failed outcome.
RECURSIVE SimLoop(_, _, _, _, _, _)
SimLoop(vehicles, strategy, picks, now, i, acc) ==
    IF i > Len(vehicles) THEN acc.results
    ELSE LET v == vehicles[i]
         IN  IF ~ValidRequest(v) \/ FreeActions(acc.lot) = {}
             THEN SimLoop(vehicles, strategy, picks, now, i + 1,
                          [acc EXCEPT !.results = Append(@, FailedResult(v))])
             ELSE LET a == Decide(strategy, acc.lot, picks[i])
                  IN  SimLoop(vehicles, strategy, picks, now, i + 1,
                              [lot |-> Occupy(acc.lot, a),
                               results |-> Append(acc.results, SuccessResult(v, a, now))])

\* SimulationManager(smart_parking).run_simulation(vehicles_list, strategy):
\* a fresh, empty, private grid per run.
run_simulation(vehicles, strategy, picks, now) ==
    SimLoop(vehicles, strategy, picks, now, 1, [lot |-> ResetLot, results |-> <<>>])

\* smart_parking.allocate_parking(vehicle_input): the learned policy on the live
\* environment; decides and occupies.  Raises on an invalid request and answers
\* with a status other than "Allocated" when no cell is free.
smart_allocate(v, state, lot, pick, now) ==
    IF ~ValidRequest(v)
    THEN [raised |-> "InvalidRequestError", status |-> "none", result |-> FailedResult(v),
          state |-> state, lot |-> lot]
    ELSE IF FreeActions(lot) = {}
    THEN [raised |-> "none", status |-> "Rejected", result |-> FailedResult(v),
          state |-> state, lot |-> lot]
    ELSE LET a == Decide("algorithm", lot, pick)
         IN  [raised |-> "none", status |-> "Allocated",
              result |-> SuccessResult(v, a, now),
              state |-> [state EXCEPT ![a] = 1],
              lot |-> Occupy(lot, a)]

(***************************************************************************)
(* allocate_parking (lines 209-313)                                        *)
(***************************************************************************)
\* Lines 221 and 332, (strategy or "algorithm").lower(): None and the empty
\* string select "algorithm"; the name is compared in lower case.
SelectedStrategy(strategy) ==
    lower(IF strategy \in {"none", ""} THEN "algorithm" ELSE strategy)

\* Lines 237-239, 364-366, 413-415: the exception raised while the handler
\* parses the window and takes the duration, or "none".
PrepareError(v) ==
    LET arrival_time == parse_datetime(v.arrival_time)
        departure_time == parse_datetime(v.departure_time)
    IN  IF arrival_time.err # "none" THEN arrival_time.err
        ELSE IF departure_time.err # "none" THEN departure_time.err
        ELSE DtDuration(arrival_time, departure_time).err

\* Lines 249-260, 288-299, 374-385, 434-445: the record built from the request
\* and the engine's result.
AllocationRecord(v, result) ==
    NewRecord(v.vehicle_plate_num, result.bay_assigned, result.slot_assigned,
              result.allocation_time, v.departure_time)

NoAllocation == [id |-> 0]

\* A handler that stores the outcome whatever its status.
AllocSucceeded_Unchecked(alloc_result) == TRUE

\* Lines 283-287: the single-vehicle simulation's outcome is checked before a
\* record is built.
AllocSucceeded(alloc_result) == alloc_result.status = "success"

\* The whole handler: the HTTP status, the stores and the live grid it leaves.
allocate_parking(v, strategy, pick, ss, state, lot, now) ==
    LET selected_strategy == SelectedStrategy(strategy)
        same == [stores |-> ss, state |-> state, lot |-> lot, allocation |-> NoAllocation]
    IN  IF selected_strategy \notin StrategyNames
        THEN same @@ [status |-> 400, raised |-> "none"]
        ELSE IF PrepareError(v) # "none"
        THEN same @@ [status |-> 500, raised |-> PrepareError(v)]
        ELSE IF selected_strategy = "algorithm"
        THEN LET allocation == smart_allocate(v, state, lot, pick, now)
                 store == create_allocation(ss["algorithm"],
                                            AllocationRecord(v, allocation.result))
             IN  IF allocation.raised # "none"
                 THEN same @@ [status |-> 500, raised |-> allocation.raised]
                 ELSE IF allocation.status # "Allocated"
                 THEN [same EXCEPT !.state = allocation.state, !.lot = allocation.lot]
                         @@ [status |-> 400, raised |-> "none"]
                 ELSE [stores |-> [ss EXCEPT !["algorithm"] = store],
                       state |-> allocation.state,
                       lot |-> allocation.lot,
                       allocation |-> store[Len(store)],
                       status |-> 200, raised |-> "none"]
        ELSE LET sim_results == run_simulation(<<v>>, selected_strategy, <<pick>>, now)
                 alloc_result == sim_results[1]
                 store == create_allocation(ss[selected_strategy],
                                            AllocationRecord(v, alloc_result))
             IN  IF ~AllocSucceeded(alloc_result)
                 THEN same @@ [status |-> 400, raised |-> "none"]
                 ELSE [stores |-> [ss EXCEPT ![selected_strategy] = store],
                       state |-> state,
                       lot |-> lot,
                       allocation |-> store[Len(store)],
                       status |-> 200, raised |-> "none"]

(***************************************************************************)
(* bulk_allocate_parking (lines 320-459)                                   *)
(***************************************************************************)
\* Lines 353-398: the "algorithm" branch, one try/except per vehicle.
\* acc = [stores, state, lot, results]
RECURSIVE BulkAlgorithmLoop(_, _, _, _, _)
BulkAlgorithmLoop(vehicles_data, picks, now, i, acc) ==
    IF i > Len(vehicles_data) THEN acc
    ELSE LET vehicle_data == vehicles_data[i]
             allocation == smart_allocate(vehicle_data, acc.state, acc.lot, picks[i], now)
             store == create_allocation(acc.stores["algorithm"],
                                        AllocationRecord(vehicle_data, allocation.result))
             failed == [acc EXCEPT !.results = Append(@, NoAllocation)]
         IN  IF PrepareError(vehicle_data) # "none"
             THEN BulkAlgorithmLoop(vehicles_data, picks, now, i + 1, failed)
             ELSE IF allocation.raised # "none"
             THEN BulkAlgorithmLoop(vehicles_data, picks, now, i + 1, failed)
             ELSE IF allocation.status = "Allocated"
             THEN BulkAlgorithmLoop(vehicles_data, picks, now, i + 1,
                     [stores |-> [acc.stores EXCEPT !["algorithm"] = store],
                      state |-> allocation.state,
                      lot |-> allocation.lot,
                      results |-> Append(acc.results, store[Len(store)])])
             ELSE BulkAlgorithmLoop(vehicles_data, picks, now, i + 1, failed)

\* Lines 428-451: one result per simulated vehicle, a record per success.
RECURSIVE BulkProcessResults(_, _, _, _, _)
BulkProcessResults(vehicles_data, sim_results, strategy, i, acc) ==
    IF i > Len(sim_results) \/ i > Len(vehicles_data) THEN acc
    ELSE LET alloc_result == sim_results[i]
             store == create_allocation(acc.stores[strategy],
                                        AllocationRecord(vehicles_data[i], alloc_result))
         IN  IF alloc_result.status = "success"
             THEN BulkProcessResults(vehicles_data, sim_results, strategy, i + 1,
                     [acc EXCEPT !.stores[strategy] = store,
                                 !.results = Append(@, store[Len(store)])])
             ELSE BulkProcessResults(vehicles_data, sim_results, strategy, i + 1,
                     [acc EXCEPT !.results = Append(@, NoAllocation)])

\* A handler that returns what it has when the simulation branch fails.
FillWithNone_NoFill(results, n) == results

\* Lines 452-457: on an exception the results are filled up with None.
RECURSIVE FillWithNone(_, _)
FillWithNone(results, n) ==
    IF Len(results) < n THEN FillWithNone(Append(results, NoAllocation), n) ELSE results

\* Lines 401-457: the "sequential" / "random" branch, one try/except around
\* the preparation of all vehicles, the simulation and the processing.
BulkSimulationBranch(vehicles_data, strategy, picks, acc, now) ==
    IF \E i \in 1 .. Len(vehicles_data) : PrepareError(vehicles_data[i]) # "none"
    THEN [acc EXCEPT !.results = FillWithNone(acc.results, Len(vehicles_data))]
    ELSE BulkProcessResults(vehicles_data,
                            run_simulation(vehicles_data, strategy, picks, now),
                            strategy, 1, acc)

\* The whole handler.
bulk_allocate_parking(vehicles_data, strategy, picks, ss, state, lot, now) ==
    LET selected_strategy == SelectedStrategy(strategy)
        acc == [stores |-> ss, state |-> state, lot |-> lot, results |-> <<>>]
    IN  IF selected_strategy \notin StrategyNames
        THEN acc @@ [status |-> 400]
        ELSE IF selected_strategy = "algorithm"
        THEN BulkAlgorithmLoop(vehicles_data, picks, now, 1, acc) @@ [status |-> 200]
        ELSE BulkSimulationBranch(vehicles_data, selected_strategy, picks, acc, now)
                @@ [status |-> 200]

(***************************************************************************)
(* simulate_parking_allocation (lines 523-625) and                         *)
(* generate_parking_status_from_simulation (lines 742-804)                 *)
(***************************************************************************)
\* next(v[...] for v in vehicles_list if v["vehicle_plate_num"] == plate)
RECURSIVE FirstWithPlate(_, _, _)
FirstWithPlate(vehicles_list, plate, i) ==
    IF vehicles_list[i].vehicle_plate_num = plate THEN vehicles_list[i]
    ELSE FirstWithPlate(vehicles_list, plate, i + 1)

\* A handler that saves no result.
SimulateSave_Nothing(vehicles_list, results, i, store) == store

\* Lines 560-594: a record per successful result.
RECURSIVE SimulateSave(_, _, _, _)
SimulateSave(vehicles_list, results, i, store) ==
    IF i > Len(results) THEN store
    ELSE LET result == results[i]
             allocation_record ==
                 NewRecord(result.vehicle_plate_num,
                           result.bay_assigned, result.slot_assigned,
                           result.allocation_time,
                           FirstWithPlate(vehicles_list, result.vehicle_plate_num, 1)
                               .departure_time)
         IN  IF result.status = "success"
             THEN SimulateSave(vehicles_list, results, i + 1,
                               create_allocation(store, allocation_record))
             ELSE SimulateSave(vehicles_list, results, i + 1, store)

\* A renderer that marks no cell.
SimMarkLoop_NoMark(allocations, i, g) == g

\* Lines 757-764: every stored allocation marks its cell on the live grid.
RECURSIVE SimMarkLoop(_, _, _)
SimMarkLoop(allocations, i, g) ==
    IF i > Len(allocations) \/ g.raised # "none" THEN g
    ELSE SimMarkLoop(allocations, i + 1,
                     MarkCell(g, allocations[i].bay_assigned - 1,
                                 allocations[i].slot_assigned - 1))

\* Lines 774-779.
RECURSIVE SimFindAllocation(_, _, _, _)
SimFindAllocation(allocations, i, bay, slot) ==
    IF i > Len(allocations) THEN 0
    ELSE IF allocations[i].bay_assigned = bay + 1 /\ allocations[i].slot_assigned = slot + 1
         THEN allocations[i].id
         ELSE SimFindAllocation(allocations, i + 1, bay, slot)

generate_parking_status_from_simulation(allocations) ==
    LET g == SimMarkLoop(allocations, 1, ResetEnv)
        slots == [c \in GridCells |->
                    LET is_occupied == (g.lot[c] = 1)
                    IN  [slot_number |-> c[2] + 1,
                         is_occupied |-> is_occupied,
                         allocation |-> IF is_occupied
                                        THEN SimFindAllocation(allocations, 1, c[1], c[2])
                                        ELSE 0]]
    IN  [state |-> g.state, lot |-> g.lot, report |-> ParkingStatus(slots)]

\* The counts of the simulation report: results with the given status.
CountStatus(results, status) ==
    Cardinality({i \in 1 .. Len(results) : results[i].status = status})

\* Lines 598-606: the AllocationResult built from one result of the run.
AllocationResult(result) ==
    [vehicle_plate_num |-> result.vehicle_plate_num,
     status |-> result.status,
     bay_assigned |-> result.bay_assigned,
     slot_assigned |-> result.slot_assigned,
     allocation_time |-> result.allocation_time]

\* A response that lists the successful results only.
AllocationResults_SuccessOnly(results) ==
    SelectSeq([i \in 1 .. Len(results) |-> AllocationResult(results[i])],
              LAMBDA r : r.status = "success")

\* Lines 559-607: allocation_results, one entry per result of the run,
\* whatever its status.
AllocationResults(results) ==
    [i \in 1 .. Len(results) |-> AllocationResult(results[i])]

\* A handler that clears the strategy stores before it looks at the strategy.
SimulateRefused_ClearedFirst(strategy, ss, state, lot) ==
    [stores |-> [s \in StoreNames |->
                    IF s \in StrategyNames THEN truncate(ss[s]) ELSE ss[s]],
     state |-> state, lot |-> lot, status |-> 400,
     response |-> [strategy |-> strategy]]

\* Lines 536-540: a strategy outside the accepted set is refused with 400
\* before a store is selected or cleared.
SimulateRefused(strategy, ss, state, lot) ==
    [stores |-> ss, state |-> state, lot |-> lot, status |-> 400,
     response |-> [strategy |-> strategy]]

\* The whole handler.
simulate_parking_allocation(vehicles_list, allocation_strategy, picks, ss, state, lot, now) ==
    LET strategy == lower(allocation_strategy)
    IN
    IF strategy \notin StrategyNames
    THEN SimulateRefused(strategy, ss, state, lot)
    ELSE LET simulation_results == run_simulation(vehicles_list, strategy, picks, now)
             strategy_db == SimulateSave(vehicles_list, simulation_results, 1,
                                         truncate(ss[strategy]))
             final == generate_parking_status_from_simulation(
                          get_all_allocations(strategy_db))
         IN  [stores |-> [ss EXCEPT ![strategy] = strategy_db],
              state |-> final.state,
              lot |-> final.lot,
              status |-> 200,
              response |->
                 [strategy |-> strategy,
                  total_vehicles |-> Len(vehicles_list),
                  successful_allocations |-> CountStatus(simulation_results, "success"),
                  failed_allocations |-> CountStatus(simulation_results, "failed"),
                  allocation_results |-> AllocationResults(simulation_results),
                  final_parking_status |-> final.report]]

(***************************************************************************)
(* compare_allocation_strategies (lines 688-712)                           *)
(***************************************************************************)
\* Line 695: the strategies, in the order the handler runs them.
CompareStrategies == <<"sequential", "random", "algorithm">>

\* Lines 698-710: one simulate_parking_allocation call per strategy, each on
\* the stores and the live grid the one before left.  picks[strategy] are the
\* draws of that strategy's run.  acc = [stores, state, lot, results]
\* The three names are accepted and the run raises nothing, so the except
\* clause of lines 708-710 is never entered.
RECURSIVE CompareLoop(_, _, _, _, _)
CompareLoop(vehicles, picks, now, i, acc) ==
    IF i > Len(CompareStrategies) THEN acc
    ELSE LET strategy == CompareStrategies[i]
             strategy_result == simulate_parking_allocation(
                                    vehicles, strategy, picks[strategy],
                                    acc.stores, acc.state, acc.lot, now)
         IN  CompareLoop(vehicles, picks, now, i + 1,
                 [stores |-> strategy_result.stores,
                  state |-> strategy_result.state,
                  lot |-> strategy_result.lot,
                  results |-> [acc.results EXCEPT ![strategy] = strategy_result.response]])

\* The whole handler: the three runs in one request, the responses by
\* strategy.  (simulate_parking_allocation raises nothing for these three
\* names, so the except clause of lines 708-710 is not entered.)
compare_allocation_strategies(vehicles, picks, ss, state, lot, now) ==
    CompareLoop(vehicles, picks, now, 1,
                [stores |-> ss, state |-> state, lot |-> lot,
                 results |-> [s \in StrategyNames |-> [strategy |-> s]]])
        @@ [status |-> 200]

(***************************************************************************)
(* get_allocation (lines 464-470)                                          *)
(***************************************************************************)
\* The record of the main store with that id, or 404.
get_allocation(allocation_id, ss) ==
    IF HasAllocation(ss["main"], allocation_id)
    THEN [status |-> 200, allocation |-> ss["main"][allocation_id]]
    ELSE [status |-> 404, allocation |-> NoAllocation]

(***************************************************************************)
(* clear_strategy_database (lines 717-738)                                 *)
(***************************************************************************)
\* A handler that empties every store, whatever it is asked for.
clear_strategy_database_Everything(strategy, ss) ==
    [stores |-> [s \in StoreNames |-> truncate(ss[s])], status |-> 200]

\* The whole handler: "all" empties the three strategy stores, a strategy
\* name empties its store, anything else is refused.
clear_strategy_database(given, ss) ==
    LET strategy == lower(given)
    IN
    IF strategy \notin StrategyNames \cup {"all"}
    THEN [stores |-> ss, status |-> 400]
    ELSE IF strategy = "all"
    THEN [stores |-> [s \in StoreNames |->
                        IF s \in StrategyNames THEN truncate(ss[s]) ELSE ss[s]],
          status |-> 200]
    ELSE [stores |-> [ss EXCEPT ![strategy] = truncate(ss[strategy])],
          status |-> 200]

(***************************************************************************)
(* get_parking_metrics_by_strategy (lines 658-683)                         *)
(***************************************************************************)
\* What the handler hands back when it builds no response.
NoMetrics == [strategy |-> "None", allocations |-> <<>>]

\* The whole handler.  A name outside the four is refused (lines 661-665).
\* For "main" the store is selected (lines 668-669) and the function ends:
\* the response is built and returned inside the else branch only (lines
\* 670-683), so the handler returns None.  `status` is 400 for the
\* HTTPException and 200 when the handler raises nothing.
get_parking_metrics_by_strategy(given, ss) ==
    LET strategy == lower(given)
    IN
    IF strategy \notin StoreNames
    THEN [status |-> 400, returned |-> FALSE, response |-> NoMetrics]
    ELSE IF strategy = "main"
    THEN [status |-> 200, returned |-> FALSE, response |-> NoMetrics]
    ELSE [status |-> 200, returned |-> TRUE,
          response |-> [strategy |-> strategy,
                        allocations |-> get_all_allocations(ss[strategy])]]

(***************************************************************************)
(* Initial state.  The main store is a file that outlives the process and  *)
(* that no handler of app.py creates records in; it starts empty, with one *)
(* well-formed active record, or with one such record on every cell.  The  *)
(* strategy stores start empty and the environment starts as constructed   *)
(* (empty).                                                                *)
(***************************************************************************)
InitialMainRecords ==
    {[NewRecord("A", c[1] + 1, c[2] + 1, Aware(0), Aware(MaxTime)) EXCEPT !.id = 1] :
        c \in GridCells}

\* A record on each of the first MaxRecs cells, all with the same window.
InitialFullMain ==
    [i \in 1 .. MaxRecs |->
        [NewRecord(IF i = 1 THEN "A" ELSE "B",
                   CellAt(i - 1)[1] + 1, CellAt(i - 1)[2] + 1,
                   Aware(0), Aware(MaxTime)) EXCEPT !.id = i]]

Init ==
    /\ \E main \in {<<>>} \cup {<<r>> : r \in InitialMainRecords} \cup {InitialFullMain} :
          stores = [s \in StoreNames |-> IF s = "main" THEN main ELSE <<>>]
    /\ env_state = ResetState
    /\ parking_lot = ResetLot
    /\ clock = 0
    /\ last = [op |-> "init"]

(***************************************************************************)
(* Actions                                                                 *)
(***************************************************************************)
\* The records of the strategy stores; the model submits allocation requests
\* while they hold fewer than MaxRecs records.
StoredRecords(ss) ==
    Len(ss["algorithm"]) + Len(ss["sequential"]) + Len(ss["random"])

\* Time passes between requests.
Tick ==
    /\ clock < MaxClock
    /\ clock' = clock + 1
    /\ last' = [op |-> "tick"]
    /\ UNCHANGED <<stores, env_state, parking_lot>>

\* The clock readings of one request that starts at `now` and makes at most
\* n calls of datetime.now(): the hour turns before one of the calls, or not
\* at all.
ClockScripts(now, n) ==
    {[j \in 1 .. n |-> now]}
        \cup {[j \in 1 .. n |-> IF j >= turn THEN now + 1 ELSE now] :
                turn \in {t \in 1 .. n : now < MaxClock}}

\* The calls of datetime.now() a status handler can make over a store: one
\* per record in each loop, and the one of the report's time stamp.
MaxReads(allocations) == 2 * Len(allocations) + 1

\* The clock after a handler that took `reads` readings of `times`.
ClockAfter(times, reads) == IF reads = 0 THEN clock ELSE Reading(times, reads)

\* GET /api/parking/status.  now1 is the first reading of the clock, now2 the
\* last one the two loops took.
GetParkingStatus ==
    \E times \in ClockScripts(clock, MaxReads(db)) :
        \E r \in {get_parking_status(get_all_allocations(db), times)} :
            /\ env_state' = r.state
            /\ parking_lot' = r.lot
            /\ clock' = ClockAfter(times, r.reads)
            /\ last' = [op |-> "status", strategy |-> "main",
                        now1 |-> Reading(times, 1),
                        now2 |-> Reading(times, IF r.loop_reads = 0 THEN 1 ELSE r.loop_reads),
                        raised |-> r.raised, report |-> r.report]
            /\ UNCHANGED stores

\* GET /api/parking/status/{strategy} (lines 630-654), for a strategy store;
\* the name is compared in lower case (line 631).
StatusInputs == StrategyNames \cup {"RANDOM"}

GetParkingStatusByStrategy ==
    \E given \in StatusInputs :
      \E strategy \in {lower(given)} :
        \E times \in ClockScripts(clock, MaxReads(stores[strategy])) :
          \E r \in {generate_parking_status_from_db(
                       get_all_allocations(stores[strategy]), times)} :
            /\ env_state' = r.state
            /\ parking_lot' = r.lot
            /\ clock' = ClockAfter(times, r.reads)
            /\ last' = [op |-> "status", strategy |-> strategy,
                        now1 |-> Reading(times, 1),
                        now2 |-> Reading(times, IF r.loop_reads = 0 THEN 1 ELSE r.loop_reads),
                        raised |-> r.raised, report |-> r.report]
            /\ UNCHANGED stores

\* GET /api/parking/allocation/{allocation_id}
GetAllocation ==
    \E allocation_id \in 1 .. MaxRecs :
        \E r \in {get_allocation(allocation_id, stores)} :
            /\ last' = [op |-> "get", id |-> allocation_id, status |-> r.status,
                        allocation |-> r.allocation]
            /\ UNCHANGED <<stores, env_state, parking_lot, clock>>

\* PUT /api/parking/allocation/{allocation_id} (lines 475-484).  update_data
\* is any dictionary: a new window, a new activity flag, or a new bay or slot
\* number (here one below and one above the facility's numbers).
UpdateInputs ==
    [field : {"departure_time"}, value : DtStrings]
        \cup [field : {"allocation_time"}, value : {Aware(t) : t \in TimeVals}]
        \cup [field : {"is_active"}, value : BOOLEAN]
        \cup [field : {"bay_assigned"}, value : {0, NumBays + 1}]
        \cup [field : {"slot_assigned"}, value : {SlotsPerBay + 1}]

UpdateAllocation ==
    \E allocation_id \in 1 .. MaxRecs, u \in UpdateInputs :
        /\ IF HasAllocation(db, allocation_id)
           THEN /\ stores' = [stores EXCEPT !["main"] =
                       update_allocation_db(db, allocation_id, u.field, u.value)]
                /\ last' = [op |-> "update", id |-> allocation_id, status |-> 200]
           ELSE /\ stores' = stores
                /\ last' = [op |-> "update", id |-> allocation_id, status |-> 404]
        /\ UNCHANGED <<env_state, parking_lot, clock>>

\* DELETE /api/parking/allocation/{allocation_id} (lines 489-500)
DeleteAllocation ==
    \E allocation_id \in 1 .. MaxRecs :
        /\ IF HasAllocation(db, allocation_id)
           THEN /\ stores' = [stores EXCEPT !["main"] =
                       update_allocation_db(db, allocation_id, "is_active", FALSE)]
                /\ last' = [op |-> "delete", id |-> allocation_id, status |-> 200]
           ELSE /\ stores' = stores
                /\ last' = [op |-> "delete", id |-> allocation_id, status |-> 404]
        /\ UNCHANGED <<env_state, parking_lot, clock>>

\* POST /api/parking/allocate, for a request of `pool` and a strategy of
\* `strategies`.  `last` keeps the strategy the handler selected.
StrategyInputs == StrategyNames \cup {"none", "", "SEQUENTIAL", "bogus"}

AllocateParking(pool, strategies) ==
    \E v \in pool, strategy \in strategies :
      \E pick \in Picks(SelectedStrategy(strategy)) :
        \E r \in {allocate_parking(v, strategy, pick, stores, env_state, parking_lot, clock)} :
            /\ StoredRecords(stores) < MaxRecs
            /\ stores' = r.stores
            /\ env_state' = r.state
            /\ parking_lot' = r.lot
            /\ last' = [op |-> "allocate", strategy |-> SelectedStrategy(strategy),
                        vehicle |-> v,
                        status |-> r.status, raised |-> r.raised,
                        allocation |-> r.allocation]
            /\ UNCHANGED clock

\* POST /api/parking/allocate/bulk
BulkAllocateParking(batches, strategies) ==
    \E vehicles_data \in batches, strategy \in strategies :
      \E picks \in [1 .. Len(vehicles_data) -> Picks(SelectedStrategy(strategy))] :
        \E r \in {bulk_allocate_parking(vehicles_data, strategy, picks,
                                       stores, env_state, parking_lot, clock)} :
            /\ StoredRecords(stores) < MaxRecs
            /\ stores' = r.stores
            /\ env_state' = r.state
            /\ parking_lot' = r.lot
            /\ last' = [op |-> "bulk", strategy |-> SelectedStrategy(strategy),
                        vehicles |-> vehicles_data,
                        status |-> r.status, results |-> r.results]
            /\ UNCHANGED clock

\* POST /api/parking/simulate
SimulateInputs == StrategyNames \cup {"SEQUENTIAL", "bogus"}

SimulateParkingAllocation(batches, strategies) ==
    \E vehicles_list \in batches, strategy \in strategies :
      \E picks \in [1 .. Len(vehicles_list) -> Picks(lower(strategy))] :
        \E r \in {simulate_parking_allocation(vehicles_list, strategy, picks,
                                             stores, env_state, parking_lot, clock)} :
            /\ StoredRecords(stores) < MaxRecs
            /\ stores' = r.stores
            /\ env_state' = r.state
            /\ parking_lot' = r.lot
            /\ last' = [op |-> "simulate", strategy |-> lower(strategy),
                        vehicles |-> vehicles_list, status |-> r.status,
                        response |-> r.response]
            /\ UNCHANGED clock

\* POST /api/parking/compare.  The request rewrites the three strategy stores
\* whatever they hold.
CompareAllocationStrategies(batches) ==
    \E vehicles \in batches :
      \E picks \in {f \in [StrategyNames -> [1 .. Len(vehicles) -> Actions]] :
                      \A s \in StrategyNames : \A j \in 1 .. Len(vehicles) :
                          f[s][j] \in Picks(s)} :
        \E r \in {compare_allocation_strategies(vehicles, picks, stores,
                                                env_state, parking_lot, clock)} :
            /\ stores' = r.stores
            /\ env_state' = r.state
            /\ parking_lot' = r.lot
            /\ last' = [op |-> "compare", vehicles |-> vehicles, status |-> r.status,
                        results |-> r.results]
            /\ UNCHANGED clock

\* DELETE /api/parking/clear/{strategy}
ClearInputs == StrategyNames \cup {"all", "ALL", "main", "bogus"}

ClearStrategyDatabase ==
    \E strategy \in ClearInputs :
        \E r \in {clear_strategy_database(strategy, stores)} :
            /\ stores' = r.stores
            /\ last' = [op |-> "clear", strategy |-> lower(strategy), status |-> r.status]
            /\ UNCHANGED <<env_state, parking_lot, clock>>

\* GET /api/parking/metrics/{strategy}
MetricsInputs == StoreNames \cup {"MAIN", "Random", "bogus"}

GetParkingMetricsByStrategy ==
    \E strategy \in MetricsInputs :
        \E r \in {get_parking_metrics_by_strategy(strategy, stores)} :
            /\ last' = [op |-> "metrics", strategy |-> lower(strategy), status |-> r.status,
                        returned |-> r.returned, response |-> r.response]
            /\ UNCHANGED <<stores, env_state, parking_lot, clock>>

(***************************************************************************)
(* Specifications.  Spec is the whole API.  The others run a part of it:   *)
(* the handlers a group of properties is about, on the requests that       *)
(* matter to them.                                                         *)
(***************************************************************************)
Next ==
    \/ Tick
    \/ GetParkingStatus
    \/ GetParkingStatusByStrategy
    \/ GetAllocation
    \/ UpdateAllocation
    \/ DeleteAllocation
    \/ AllocateParking(Vehicles, StrategyInputs)
    \/ BulkAllocateParking(Batches, StrategyInputs)
    \/ SimulateParkingAllocation(Batches, SimulateInputs)
    \/ CompareAllocationStrategies(Batches)
    \/ ClearStrategyDatabase
    \/ GetParkingMetricsByStrategy

Spec == Init /\ [][Next]_vars

\* The main store: its status report, the id-based handlers and the clock.
NextMain ==
    \/ Tick
    \/ GetParkingStatus
    \/ UpdateAllocation
    \/ DeleteAllocation

\* The id-based handlers rewrite any field of a record; they are run on a
\* main store of at most one record.
InitMain == Init /\ Len(db) <= 1

SpecMain == InitMain /\ [][NextMain]_vars

\* The allocation handlers, on every request, with the main store empty.
InitFresh == Init /\ db = <<>>

NextAlloc ==
    \/ AllocateParking(Vehicles, StrategyInputs)
    \/ BulkAllocateParking(Batches, StrategyInputs)

SpecAlloc == InitFresh /\ [][NextAlloc]_vars

\* Well-formed requests only.
ValidVehicles == {v \in Vehicles : ValidRequest(v)}
ValidBatches == SeqsUpTo({v \in BatchVehicles : ValidRequest(v)}, MaxBatch)

\* Allocations and status queries over the live grid and the strategy stores.
NextGrid ==
    \/ GetParkingStatus
    \/ GetParkingStatusByStrategy
    \/ AllocateParking(ValidVehicles, StrategyNames)

SpecGrid == Init /\ [][NextGrid]_vars

\* One request per plate, all with the same window.
PlainVehicles == {Request(p, Aware(0), Aware(MaxTime)) : p \in Plates}
PlainBatches == SeqsUpTo(PlainVehicles, MaxBatch)

\* The batches compared where the model also runs other handlers: none or one
\* plain request; an unreadable request before a valid one; two requests with
\* the same plate and different departures.
SingleBatches == SeqsUpTo(PlainVehicles, 1)
CompareBatches ==
    SingleBatches
        \cup {<<Request("A", BadString, Aware(MaxTime)), Request("B", Aware(0), Aware(MaxTime))>>,
              <<Request("A", Aware(0), Aware(1)), Request("A", Aware(0), Aware(MaxTime))>>}

\* Allocations, simulation runs and comparisons.
NextSim ==
    \/ AllocateParking(ValidVehicles, StrategyNames)
    \/ SimulateParkingAllocation(ValidBatches, StrategyNames)
    \/ CompareAllocationStrategies(SingleBatches)

SpecSim == InitFresh /\ [][NextSim]_vars

\* Simulation runs on every batch, the invalid requests included, alone and
\* within a comparison, over stores that single allocations have written.
NextSimulate ==
    \/ AllocateParking(ValidVehicles, StrategyNames)
    \/ SimulateParkingAllocation(Batches, SimulateInputs)
    \/ CompareAllocationStrategies(CompareBatches)

SpecSimulate == InitFresh /\ [][NextSimulate]_vars

\* The three renderers of a status report, over the main store and a strategy
\* store that simulation runs have written.
NextReport ==
    \/ GetParkingStatus
    \/ GetParkingStatusByStrategy
    \/ SimulateParkingAllocation(ValidBatches, {"sequential"})
    \/ CompareAllocationStrategies(SingleBatches)

SpecReport == Init /\ [][NextReport]_vars

\* The handlers that write a strategy store, on plain requests, with the main
\* store empty or holding a record.
NextStores ==
    \/ AllocateParking(PlainVehicles, StrategyInputs)
    \/ BulkAllocateParking(PlainBatches, StrategyNames)
    \/ SimulateParkingAllocation(PlainBatches, StrategyNames)
    \/ CompareAllocationStrategies(SingleBatches)
    \/ ClearStrategyDatabase

SpecStores == Init /\ [][NextStores]_vars

\* Single allocations followed by the id-based handlers.
NextById ==
    \/ AllocateParking(PlainVehicles, StrategyNames \cup {"none"})
    \/ GetAllocation
    \/ DeleteAllocation

SpecById == Init /\ [][NextById]_vars

\* A plain request and one with an empty window.
RefusalVehicles == PlainVehicles \cup {Request("A", Aware(MaxTime), Aware(MaxTime))}

\* Requests that are refused or fail, among requests that succeed: single
\* allocations with every strategy input, batches and simulation runs with an
\* accepted and a refused one, over a live grid that the status report and
\* earlier allocations have filled.
NextRefusal ==
    \/ GetParkingStatus
    \/ AllocateParking(RefusalVehicles, StrategyInputs)
    \/ BulkAllocateParking(PlainBatches, {"sequential", "SEQUENTIAL", "bogus"})
    \/ SimulateParkingAllocation(PlainBatches, {"sequential", "SEQUENTIAL", "bogus"})

SpecRefusal == Init /\ [][NextRefusal]_vars

\* The metrics of every store, over stores that single allocations have
\* written and a main store that is empty or holds a record.
NextMetrics ==
    \/ AllocateParking(PlainVehicles, StrategyNames)
    \/ GetParkingMetricsByStrategy

SpecMetrics == Init /\ [][NextMetrics]_vars

(***************************************************************************)
(* Properties                                                              *)
(***************************************************************************)
\* The instants a stored record covers: [allocation_time, departure_time).
WindowStart(a) == parse_datetime(a.allocation_time).t
WindowEnd(a) == parse_datetime(a.departure_time).t
WindowsOverlap(a, b) ==
    /\ WindowStart(a) < WindowEnd(b)
    /\ WindowStart(b) < WindowEnd(a)
    /\ WindowStart(a) < WindowEnd(a)
    /\ WindowStart(b) < WindowEnd(b)
SameCell(a, b) ==
    a.bay_assigned = b.bay_assigned /\ a.slot_assigned = b.slot_assigned

\* C1: in the sequential and the random store no two active records whose
\* time windows overlap are assigned the same (bay, slot).
C1_NoDoubleBookingInStore ==
    \A s \in {"sequential", "random"} :
        \A i, j \in 1 .. Len(stores[s]) :
            (i < j /\ stores[s][i].is_active /\ stores[s][j].is_active
                   /\ WindowsOverlap(stores[s][i], stores[s][j]))
                => ~SameCell(stores[s][i], stores[s][j])

\* A record of the algorithm store whose reservation has not ended at `now`.
StillActive(a, now) == a.is_active /\ now < WindowEnd(a)

\* C2: whatever handlers ran in between, two algorithm allocations whose
\* reservations are both still active never hold the same (bay, slot).
C2_NoSharedCellAmongAlgorithmAllocations ==
    \A i, j \in 1 .. Len(db_algorithm) :
        (i < j /\ StillActive(db_algorithm[i], clock) /\ StillActive(db_algorithm[j], clock))
            => ~SameCell(db_algorithm[i], db_algorithm[j])

\* C3: a status query (main or per strategy) leaves env.state and
\* env.parking_lot as they were.
C3_StatusQueryKeepsGrid ==
    [][last'.op = "status" => (env_state' = env_state /\ parking_lot' = parking_lot)]_vars

\* The main store holds a reservation of the cell that covers `now`.
CoveredAt(store, c, now) ==
    \E i \in 1 .. Len(store) :
        /\ store[i].bay_assigned = c[1] + 1
        /\ store[i].slot_assigned = c[2] + 1
        /\ WindowStart(store[i]) <= now
        /\ now < WindowEnd(store[i])

\* C4: in a report of get_parking_status a cell is occupied exactly when a
\* stored reservation of the cell satisfies arrival_time <= now < departure_time.
C4_OccupiedIffWithinWindow ==
    (last.op = "status" /\ last.strategy = "main" /\ last.raised = "none")
        => \A c \in GridCells :
              last.report.bays[c].is_occupied <=> CoveredAt(db, c, last.now1)

\* C5: in one status report a slot is occupied exactly when it carries an
\* allocation, also when the clock moves during the computation.
C5_SlotEntryConsistent ==
    (last.op = "status" /\ last.raised = "none")
        => \A c \in GridCells :
              last.report.bays[c].is_occupied <=> (last.report.bays[c].allocation # 0)

\* A stored departure_time in one of the three readable forms whose instant
\* has passed at `now`.
ReadableForms == {"aware", "naive", "timeonly"}
ExpiredReadable(a, now) ==
    /\ a.departure_time.form \in ReadableForms
    /\ a.allocation_time.form \in ReadableForms
    /\ WindowEnd(a) <= now

\* C6: a status renderer that reads only expired reservations, in whatever
\* readable form their departure_time is stored, raises nothing and reports
\* every cell free.
C6_ExpiredNeverRaises ==
    (last.op = "status"
        /\ \A i \in 1 .. Len(stores[last.strategy]) :
              ExpiredReadable(stores[last.strategy][i], last.now1))
        => /\ last.raised = "none"
           /\ \A c \in GridCells : ~last.report.bays[c].is_occupied

\* The handler accepted the strategy it was called with.
Accepted(strategy) == SelectedStrategy(strategy) \in StrategyNames

\* Result i of a batch is the allocation of vehicle i.
AllocationOf(result, v) ==
    /\ result.id > 0
    /\ result.vehicle_plate_num = v.vehicle_plate_num
    /\ result.departure_time = v.departure_time

\* C7: bulk_allocate_parking returns one entry per input vehicle, in input
\* order: entry i is the allocation of vehicle i or None.
C7_BulkOneOutcomePerVehicle ==
    (last.op = "bulk" /\ Accepted(last.strategy))
        => /\ Len(last.results) = Len(last.vehicles)
           /\ \A i \in 1 .. Len(last.results) :
                 \/ last.results[i] = NoAllocation
                 \/ AllocationOf(last.results[i], last.vehicles[i])

C7_Witness ==
    /\ last.op = "bulk"
    /\ Accepted(last.strategy)
    /\ Len(last.vehicles) = 2
    /\ last.results[1] = NoAllocation
    /\ last.results[2] # NoAllocation

\* The entries of the last batch that are allocations.
BulkSuccesses == {i \in 1 .. Len(last.results) : last.results[i] # NoAllocation}

\* The free cells the batch started with: the whole private grid of a
\* simulation, or the live grid's free cells before the algorithm branch ran.
BulkCapacity ==
    IF SelectedStrategy(last.strategy) = "algorithm"
    THEN Cardinality(FreeActions(parking_lot)) + Cardinality(BulkSuccesses)
    ELSE TotalSlots

\* The outcome of vehicle j when every invalid vehicle is a failed entry.
ExpectedSuccess(vehicles, j, capacity) ==
    /\ ValidRequest(vehicles[j])
    /\ Cardinality({i \in 1 .. j - 1 : ValidRequest(vehicles[i])}) < capacity

\* C8: in a batch every vehicle gets the outcome it gets when the invalid
\* vehicles of the batch are recorded as failed entries.
C8_BadRequestDoesNotAbortBatch ==
    (last.op = "bulk" /\ Accepted(last.strategy))
        => \A j \in 1 .. Len(last.vehicles) :
              /\ j <= Len(last.results)
              /\ (last.results[j] # NoAllocation)
                    <=> ExpectedSuccess(last.vehicles, j, BulkCapacity)

\* The request's window is readable and its arrival is not before its departure.
NotBefore(v) ==
    LET a == parse_datetime(v.arrival_time)
        d == parse_datetime(v.departure_time)
    IN  /\ a.err = "none"
        /\ d.err = "none"
        /\ a.aware = d.aware
        /\ a.t >= d.t

\* C9: a request whose arrival_time is not strictly before its departure_time
\* fails: allocate_parking answers with an error and leaves every store as it
\* was; bulk_allocate_parking returns None for it and creates exactly one
\* record per allocation it returns.
C9_EmptyWindowNeverAllocated ==
    [][/\ (last'.op = "allocate" /\ NotBefore(last'.vehicle))
            => (last'.status # 200 /\ last'.allocation = NoAllocation /\ stores' = stores)
       /\ (last'.op = "bulk" /\ Accepted(last'.strategy))
            => /\ \A j \in 1 .. Len(last'.vehicles) :
                     (NotBefore(last'.vehicles[j]) /\ j <= Len(last'.results))
                        => last'.results[j] = NoAllocation
               /\ StoredRecords(stores') - StoredRecords(stores)
                     = Cardinality({j \in 1 .. Len(last'.results) :
                                       last'.results[j] # NoAllocation})]_vars

C9_Witness ==
    \/ /\ last.op = "allocate"
       /\ NotBefore(last.vehicle)
       /\ last.status # 200
    \/ /\ last.op = "bulk"
       /\ Len(last.vehicles) = 2
       /\ NotBefore(last.vehicles[1])
       /\ last.results[1] = NoAllocation
       /\ last.results[2] # NoAllocation

\* C10: a simulation run, alone or as part of a comparison, leaves the live
\* grid as it was.
C10_SimulationKeepsLiveGrid ==
    [][((last'.op = "simulate" /\ last'.status = 200) \/ last'.op = "compare")
          => (env_state' = env_state /\ parking_lot' = parking_lot)]_vars

\* C11: a valid request that finds no free cell is answered, not failed: the
\* single-allocate handler returns without raising, and the bulk handler
\* returns None for it.
C11_ExhaustionIsNotAnError ==
    [][/\ (/\ last'.op = "allocate"
           /\ SelectedStrategy(last'.strategy) = "algorithm"
           /\ ValidRequest(last'.vehicle)
           /\ FreeActions(parking_lot) = {})
            => (last'.raised = "none" /\ last'.status = 200)
       /\ (/\ last'.op = "bulk"
           /\ SelectedStrategy(last'.strategy) = "algorithm"
           /\ FreeActions(parking_lot) = {})
            => /\ last'.status = 200
               /\ \A j \in 1 .. Len(last'.results) : last'.results[j] = NoAllocation]_vars

\* The simulation runs of the last request, each with the strategy it ran
\* and the response it returned: the run of a simulate request, the three
\* runs of a compare request.
SimulationRuns ==
    IF last.op = "simulate" /\ last.status = 200
    THEN {[strategy |-> last.strategy, response |-> last.response]}
    ELSE IF last.op = "compare"
    THEN {[strategy |-> s, response |-> last.results[s]] : s \in StrategyNames}
    ELSE {}

\* C12: the aggregates of a simulate response add up: successful plus failed
\* is total_vehicles, allocation_results has total_vehicles entries, and
\* successful_allocations counts its 'success' entries.
C12_SimulateAggregatesAddUp ==
    \A run \in SimulationRuns :
           LET R == run.response
           IN  /\ R.successful_allocations + R.failed_allocations = R.total_vehicles
               /\ Len(R.allocation_results) = R.total_vehicles
               /\ R.total_vehicles = Len(last.vehicles)
               /\ CountStatus(R.allocation_results, "success") = R.successful_allocations

C12_Witness ==
    /\ last.op = "simulate"
    /\ last.status = 200
    /\ last.response.successful_allocations = 1
    /\ last.response.failed_allocations = 1

\* The record names a cell of the facility.
CellInFacility(a) ==
    /\ a.bay_assigned \in 1 .. NumBays
    /\ a.slot_assigned \in 1 .. SlotsPerBay

\* C13: every persisted record names a bay in 1 .. num_bays and a slot in
\* 1 .. slots_per_bay.
C13_RecordsNameFacilityCells ==
    \A s \in StoreNames : \A i \in 1 .. Len(stores[s]) : CellInFacility(stores[s][i])

\* The 0-based grid cell a record names.
CellOf(a) == <<a.bay_assigned - 1, a.slot_assigned - 1>>

\* C14: in a report of the main store, the cell of an ended (inactive)
\* allocation is free unless an active record holds the same cell, and the
\* cell of an active allocation that has not expired is occupied.
C14_EndedAllocationFreesCell ==
    (last.op = "status" /\ last.strategy = "main" /\ last.raised = "none")
        => \A i \in 1 .. Len(db) :
              CellInFacility(db[i])
                 => /\ (/\ ~db[i].is_active
                        /\ ~\E j \in 1 .. Len(db) : db[j].is_active /\ SameCell(db[j], db[i]))
                          => ~last.report.bays[CellOf(db[i])].is_occupied
                    /\ (db[i].is_active /\ last.now2 < WindowEnd(db[i]))
                          => last.report.bays[CellOf(db[i])].is_occupied

\* The cells named by the 'success' entries of a simulate response.
SuccessCells(R) ==
    {<<R.allocation_results[i].bay_assigned - 1, R.allocation_results[i].slot_assigned - 1>> :
        i \in {k \in 1 .. Len(R.allocation_results) :
                  R.allocation_results[k].status = "success"}}

\* C15: final_parking_status of a simulate response is the occupancy of that
\* run: as many occupied slots as successful allocations, and a cell is
\* occupied exactly when a 'success' entry names it.
C15_FinalStatusIsRunOccupancy ==
    \A run \in SimulationRuns :
           LET R == run.response
           IN  /\ R.final_parking_status.occupied_slots = R.successful_allocations
               /\ \A c \in GridCells :
                     R.final_parking_status.bays[c].is_occupied <=> c \in SuccessCells(R)

C15_Witness ==
    /\ last.op = "simulate"
    /\ last.status = 200
    /\ Len(last.vehicles) = 2
    /\ last.response.failed_allocations = 1
    /\ last.response.final_parking_status.occupied_slots = 1
    /\ last.response.final_parking_status.available_slots = 1

\* The status reports the last request returned: the report of a status
\* query that did not raise, the final status of each simulation run.
LastReports ==
    IF last.op = "status" /\ last.raised = "none"
    THEN {last.report}
    ELSE {run.response.final_parking_status : run \in SimulationRuns}

\* C16: in every status report total_slots is num_bays * slots_per_bay,
\* occupied_slots counts the slot entries with is_occupied, occupied plus
\* available is total, and occupied lies in 0 .. total.
C16_ReportSummaryAddsUp ==
    \A report \in LastReports :
           /\ report.total_slots = NumBays * SlotsPerBay
           /\ report.occupied_slots
                 = Cardinality({c \in GridCells : report.bays[c].is_occupied})
           /\ report.occupied_slots + report.available_slots = report.total_slots
           /\ report.occupied_slots \in 0 .. report.total_slots

C16_Witness ==
    /\ last.op = "status"
    /\ last.strategy \in StrategyNames
    /\ last.raised = "none"
    /\ last.report.occupied_slots = 1
    /\ last.report.available_slots = TotalSlots - 1

\* The 'success' entries of a simulate response, in order.
SuccessEntries(R) == SelectSeq(R.allocation_results, LAMBDA e : e.status = "success")

\* C17: after a simulation run for a strategy, the store of that strategy
\* holds one record per 'success' entry of the run, in order, and no other.
C17_StoreHoldsExactlyTheRun ==
    \A run \in SimulationRuns :
           LET store == stores[run.strategy]
               entries == SuccessEntries(run.response)
           IN  /\ Len(store) = Len(entries)
               /\ \A k \in 1 .. Len(store) :
                     /\ store[k].id = k
                     /\ store[k].vehicle_plate_num = entries[k].vehicle_plate_num
                     /\ store[k].bay_assigned = entries[k].bay_assigned
                     /\ store[k].slot_assigned = entries[k].slot_assigned
                     /\ store[k].allocation_time = entries[k].allocation_time

C17_Witness ==
    /\ last.op = "simulate"
    /\ last.status = 200
    /\ Len(last.response.allocation_results) = 2
    /\ last.response.allocation_results[1].status = "failed"
    /\ last.response.allocation_results[2].status = "success"
    /\ Len(stores[last.strategy]) = 1
    /\ \E s \in StrategyNames \ {last.strategy} : stores[s] # <<>>

\* The stores a request may write: the store of the strategy it selects, or
\* the three strategy stores for clear 'all'.
TargetStores(l) ==
    IF l.op = "clear" /\ l.strategy = "all" THEN StrategyNames
    ELSE IF l.op \in {"allocate", "bulk"} THEN {SelectedStrategy(l.strategy)}
    ELSE {l.strategy}

\* C18: an allocate, bulk-allocate, simulate or clear request changes only
\* the store of its strategy; clear 'all' changes only the strategy stores.
C18_StoreIsolation ==
    [][last'.op \in {"allocate", "bulk", "simulate", "clear"}
          => \A s \in StoreNames \ TargetStores(last') : stores'[s] = stores[s]]_vars

C18_Witness ==
    /\ last.op = "clear"
    /\ last.strategy \in StrategyNames
    /\ last.status = 200
    /\ stores[last.strategy] = <<>>
    /\ db # <<>>
    /\ \E s \in StrategyNames : stores[s] # <<>>

\* The position in the input batch of the k-th 'success' entry of a response.
SuccessIndex(R, k) ==
    CHOOSE i \in 1 .. Len(R.allocation_results) :
        /\ R.allocation_results[i].status = "success"
        /\ Cardinality({j \in 1 .. i : R.allocation_results[j].status = "success"}) = k

\* C19: every record a simulation run persists carries the departure_time of
\* the input request that produced it (vehicle_plate_type, vehicle_type and
\* priority_level are looked up the same way).
C19_RecordCarriesItsOwnRequest ==
    \A run \in SimulationRuns :
        \A k \in 1 .. Len(stores[run.strategy]) :
              LET v == last.vehicles[SuccessIndex(run.response, k)]
              IN  /\ stores[run.strategy][k].vehicle_plate_num = v.vehicle_plate_num
                  /\ stores[run.strategy][k].departure_time = v.departure_time

\* C20: right after a successful allocate_parking, get_allocation with the
\* returned id answers with the record just created, and delete_allocation
\* with that id ends that record.
C20_CreateThenGetRoundTrip ==
    [][(last.op = "allocate" /\ last.status = 200)
          => /\ (last'.op = "get" /\ last'.id = last.allocation.id)
                  => (last'.status = 200 /\ last'.allocation = last.allocation)
             /\ (last'.op = "delete" /\ last'.id = last.allocation.id)
                  => /\ last'.status = 200
                     /\ ~stores'[SelectedStrategy(last.strategy)][last.allocation.id].is_active]_vars

\* The request of a step is refused for its strategy name.
RefusedStrategy(l) ==
    \/ l.op \in {"allocate", "bulk"} /\ SelectedStrategy(l.strategy) \notin StrategyNames
    \/ l.op = "simulate" /\ l.strategy \notin StrategyNames

\* C21: an allocate, bulk-allocate or simulate request with a strategy name
\* outside the accepted set is answered with 400, a single allocate that does
\* not end in an allocation is answered with an error, and in both cases
\* every store is left exactly as it was.
C21_FailedRequestKeepsStores ==
    [][/\ RefusedStrategy(last') => (last'.status = 400 /\ stores' = stores)
       /\ (last'.op = "allocate" /\ last'.allocation = NoAllocation)
            => (last'.status \in {400, 500} /\ stores' = stores)]_vars

C21_Witness ==
    /\ last.op = "simulate"
    /\ last.strategy \notin StrategyNames
    /\ last.status = 400
    /\ \E s \in StrategyNames : stores[s] # <<>>
    /\ db # <<>>

\* C22: for every name get_parking_metrics_by_strategy accepts ('sequential',
\* 'random', 'algorithm', 'main') the handler returns a response that names
\* the strategy and lists all allocations of the corresponding store.
C22_MetricsForEveryAcceptedName ==
    (last.op = "metrics" /\ last.strategy \in StoreNames)
        => /\ last.returned
           /\ last.response.strategy = last.strategy
           /\ last.response.allocations = get_all_allocations(stores[last.strategy])

====
